---- MODULE Spec2Model ----
(***************************************************************************)
(* Model of hatchify/transaction-manager (manager.go, txnFn.go).           *)
(*                                                                         *)
(* One Manager is shared by a fixed set of calling goroutines.  Every      *)
(* caller invokes Manager.Run at most once; the episode of caller c owns   *)
(* the heap objects indexed by c (its queue, its outbound channel, its     *)
(* inbound channels and the two wait groups of openTxns).  The Manager's   *)
(* fields q, out and ins hold references to such objects.                  *)
(***************************************************************************)
EXTENDS Integers, Sequences, FiniteSets, TLC

\* ---------------------------------------------------------------- bounds
MaxFns == 2
NumCallers == 2

Callers == 1..NumCallers
Fns == 1..MaxFns

\* ---------------------------------------------------------------- values
\* error values: the nil error, the error of caller c's business function,
\* the error reported by participant i of caller c's episode
NilErr == <<"nil", 0, 0>>
BizErr(c) == <<"biz", c, 0>>
TxnErr(c, i) == <<"txn", c, i>>

\* nil reference held in a Manager field
NilRef == 0

VARIABLES
    nfns,      \* len(m.fns), fixed by New
    short,     \* workers the queue lacks for len(m.fns) tasks: 0 in the program
    mux,       \* m.mux: 0 when unlocked, else the caller holding it
    q,         \* m.q: NilRef or the id of a queue
    out,       \* m.out: NilRef or the id of an outbound channel
    ins,       \* m.ins: sequence of inbound channel ids (<<>> is the nil slice)
    pc,        \* position of every caller inside Run
    idx,       \* loop index of the caller (openTxns / pushErrorToInbounds)
    rng,       \* what a range statement of the caller iterates: inbound channel ids <<c, i>>, or <<k, 0>> for outbound channel k
    err,       \* run's err as assigned by err = run()
    ret,       \* the value run's return statement hands back
    errs,      \* the ErrorList filled by newErrorsFromOutbound
    bizCalls,  \* how often the caller's business function was invoked
    start,     \* openTxns' start wait group counter, per episode
    end,       \* openTxns' end wait group counter, per episode
    queue,     \* heap: the queue created by the episode
    outCh,     \* heap: the outbound channel created by the episode
    inCh,      \* heap: the inbound channels created by the episode
    tpc,       \* position of every participant task
    tout,      \* outbound channel reference captured by the task
    tq,        \* queue the task was submitted to
    got,       \* outcome the participant received
    pushed,    \* number of values ever sent on each inbound channel
    reported,  \* participants of the episode that have sent an error on the outbound channel
    crashed    \* a goroutine panicked (send on / close of a closed channel, nil deref)

vars == <<nfns, short, mux, q, out, ins, pc, idx, rng, err, ret, errs, bizCalls,
          start, end, queue, outCh, inCh, tpc, tout, tq, got, pushed, reported, crashed>>

\* fixed after New
config == <<nfns, short>>
mgrFields == <<q, out, ins>>
locals == <<idx, rng, err, ret, errs, bizCalls>>
taskVars == <<tpc, tout, tq, got, reported>>
heap == <<queue, outCh, inCh, pushed, start, end>>

\* ---------------------------------------------------------------- channels
\* a Go channel: made, buffer capacity, buffered values, closed flag
NoChan == [made |-> FALSE, cap |-> 0, buf |-> <<>>, closed |-> FALSE]
MakeChan(n) == [made |-> TRUE, cap |-> n, buf |-> <<>>, closed |-> FALSE]

\* a buffered send proceeds when there is room; a send on a closed channel panics
CanSend(ch) == ch.closed \/ Len(ch.buf) < ch.cap
SendChan(ch, v) == [ch EXCEPT !.buf = Append(ch.buf, v)]
\* a receive proceeds when a value is buffered or the channel is closed
CanRecv(ch) == Len(ch.buf) > 0 \/ ch.closed
RecvChan(ch) == [ch EXCEPT !.buf = Tail(ch.buf)]
CloseChan(ch) == [ch EXCEPT !.closed = TRUE]

\* ---------------------------------------------------------------- queue
NoQueue == [made |-> FALSE, cap |-> 0, closed |-> FALSE]
\* queue.New(numWorkers, queueLen)
QueueNew(n) == [made |-> TRUE, cap |-> n, closed |-> FALSE]

\* task positions
TaskRunning == {"running", "stalled", "waiting", "commit", "again", "nested", "returned"}
\* tasks of queue k that occupy a worker
Occupied(k) == {t \in Callers \X Fns : tq[t[1]][t[2]] = k /\ tpc[t[1]][t[2]] \in TaskRunning}
\* tasks of queue k that have not completed
Unfinished(k) == {t \in Callers \X Fns : tq[t[1]][t[2]] = k /\ tpc[t[1]][t[2]] # "finished"}

\* errors.ErrorList.Err
ErrOf(list) == IF Len(list) = 0 THEN NilErr
               ELSE IF Len(list) = 1 THEN list[1]
               ELSE <<"list", list>>

\* ---------------------------------------------------------------- Init
\* the Manager after New, before any Run
InitState ==
    /\ nfns \in 0..MaxFns
    /\ mux = 0
    /\ q = NilRef
    /\ out = NilRef
    /\ ins = <<>>
    /\ pc = [c \in Callers |-> "idle"]
    /\ idx = [c \in Callers |-> 0]
    /\ rng = [c \in Callers |-> <<>>]
    /\ err = [c \in Callers |-> NilErr]
    /\ ret = [c \in Callers |-> NilErr]
    /\ errs = [c \in Callers |-> <<>>]
    /\ bizCalls = [c \in Callers |-> 0]
    /\ start = [c \in Callers |-> 0]
    /\ end = [c \in Callers |-> 0]
    /\ queue = [c \in Callers |-> NoQueue]
    /\ outCh = [c \in Callers |-> NoChan]
    /\ inCh = [c \in Callers |-> [i \in Fns |-> NoChan]]
    /\ tpc = [c \in Callers |-> [i \in Fns |-> "none"]]
    /\ tout = [c \in Callers |-> [i \in Fns |-> NilRef]]
    /\ tq = [c \in Callers |-> [i \in Fns |-> NilRef]]
    /\ got = [c \in Callers |-> [i \in Fns |-> NilErr]]
    /\ pushed = [c \in Callers |-> [i \in Fns |-> 0]]
    /\ reported = [c \in Callers |-> {}]
    /\ crashed = FALSE

\* initRun sizes the queue by len(m.fns): no worker is missing
Init == InitState /\ short = 0


\* ---------------------------------------------------------------- Manager.Run
\* fault variant: Run without the mutex
LockFree_Always == TRUE

\* m.mux.Lock() can be acquired
LockFree == mux = 0

Lock(c) ==
    /\ ~crashed
    /\ pc[c] = "idle"
    /\ LockFree
    /\ mux' = c
    /\ pc' = [pc EXCEPT ![c] = "initRun"]
    /\ UNCHANGED <<config, mgrFields, locals, heap, taskVars, crashed>>

\* fault variant: the queue gets one worker fewer than there are participants
QueueCap_Less == nfns - short - 1

\* initRun, line 41: the number of workers of queue.New(len(m.fns), 0)
QueueCap == IF nfns > short THEN nfns - short ELSE 0

\* fault variant: the outbound channel is made without a buffer
OutboundChan_Unbuffered == MakeChan(0)

\* initRun, line 43: m.out = make(chan error, len(m.fns))
OutboundChan == MakeChan(nfns)

\* initRun: fresh queue, outbound channel and inbound slice
InitRun(c) ==
    /\ ~crashed
    /\ pc[c] = "initRun"
    /\ queue' = [queue EXCEPT ![c] = QueueNew(QueueCap)]
    /\ outCh' = [outCh EXCEPT ![c] = OutboundChan]
    /\ q' = c
    /\ out' = c
    /\ ins' = <<>>
    /\ pc' = [pc EXCEPT ![c] = "openTxns"]
    /\ UNCHANGED <<config, mux, locals, inCh, pushed, start, end, taskVars, crashed>>

\* fault variant: the start wait group is armed with one count too many
OpenTxns_OffByOne(c) ==
    /\ ~crashed
    /\ pc[c] = "openTxns"
    /\ start' = [start EXCEPT ![c] = nfns + 1]
    /\ end' = [end EXCEPT ![c] = nfns]
    /\ idx' = [idx EXCEPT ![c] = 1]
    /\ pc' = [pc EXCEPT ![c] = "openTxn"]
    /\ UNCHANGED <<config, mux, mgrFields, rng, err, ret, errs, bizCalls,
                   queue, outCh, inCh, pushed, taskVars, crashed>>

\* openTxns, lines 104-107: start.Add(len(m.fns)); end.Add(len(m.fns))
OpenTxns(c) ==
    /\ ~crashed
    /\ pc[c] = "openTxns"
    /\ start' = [start EXCEPT ![c] = nfns]
    /\ end' = [end EXCEPT ![c] = nfns]
    /\ idx' = [idx EXCEPT ![c] = 1]
    /\ pc' = [pc EXCEPT ![c] = "openTxn"]
    /\ UNCHANGED <<config, mux, mgrFields, rng, err, ret, errs, bizCalls,
                   queue, outCh, inCh, pushed, taskVars, crashed>>

\* fault variant: the inbound channel is made without a buffer
InboundChan_Unbuffered == MakeChan(0)

\* openTxn, line 126: in = make(chan error, 1)
InboundChan == MakeChan(1)

\* one iteration of the loop of openTxns: openTxn(fn, m.out, &start, &end)
\* makes the inbound channel and submits the task to m.q, then the channel
\* is appended to m.ins
OpenTxn(c) ==
    /\ ~crashed
    /\ pc[c] = "openTxn"
    /\ idx[c] <= nfns
    /\ IF q = NilRef
       THEN /\ crashed' = TRUE
            /\ UNCHANGED <<inCh, tpc, tq, tout, ins, idx>>
       ELSE /\ inCh' = [inCh EXCEPT ![c][idx[c]] = InboundChan]
            /\ tpc' = [tpc EXCEPT ![c][idx[c]] = "pending"]
            /\ tq' = [tq EXCEPT ![c][idx[c]] = q]
            /\ tout' = [tout EXCEPT ![c][idx[c]] = out]
            /\ ins' = Append(ins, <<c, idx[c]>>)
            /\ idx' = [idx EXCEPT ![c] = idx[c] + 1]
            /\ UNCHANGED crashed
    /\ UNCHANGED <<config, mux, q, out, pc, rng, err, ret, errs, bizCalls,
                   queue, outCh, pushed, start, end, got, reported>>

\* fault variant: start.Wait() returns as soon as one participant has started
StartWaitOver_Any(c) == start[c] < nfns \/ nfns = 0

\* fault variant: openTxns returns without start.Wait()
StartWaitOver_NoWait(c) == TRUE

\* start.Wait() at the end of openTxns returns
StartWaitOver(c) == start[c] = 0

StartWait(c) ==
    /\ ~crashed
    /\ pc[c] = "openTxn"
    /\ idx[c] > nfns
    /\ StartWaitOver(c)
    /\ pc' = [pc EXCEPT ![c] = "callRun"]
    /\ UNCHANGED <<config, mux, mgrFields, locals, heap, taskVars, crashed>>

\* err = run(): the business function is entered ...
RunCall(c) ==
    /\ ~crashed
    /\ pc[c] = "callRun"
    /\ bizCalls' = [bizCalls EXCEPT ![c] = bizCalls[c] + 1]
    /\ pc' = [pc EXCEPT ![c] = "inRun"]
    /\ UNCHANGED <<config, mux, mgrFields, idx, rng, err, ret, errs, heap,
                   taskVars, crashed>>

\* the results the business function of caller c can return
RunOutcomes(c) == {NilErr, BizErr(c)}

\* ... and returns nil or its error; pushErrorToInbounds starts to range over m.ins
RunReturn(c) ==
    /\ ~crashed
    /\ pc[c] = "inRun"
    /\ \E e \in RunOutcomes(c) : err' = [err EXCEPT ![c] = e]
    /\ rng' = [rng EXCEPT ![c] = ins]
    /\ idx' = [idx EXCEPT ![c] = 1]
    /\ pc' = [pc EXCEPT ![c] = "push"]
    /\ UNCHANGED <<config, mux, mgrFields, ret, errs, bizCalls, heap,
                   taskVars, crashed>>

\* fault variant: nil is broadcast whatever the business function returned
PushValue_Nil(c) == NilErr

\* pushErrorToInbounds: the value of `in <- err`
PushValue(c) == err[c]

\* fault variant: the broadcast loop stops one channel short
PushDone_Short(c) == idx[c] >= Len(rng[c])

\* the range over m.ins has visited every inbound channel
PushDone(c) == idx[c] > Len(rng[c])

\* fault variant: the inbound channel is closed without the outcome being sent
PushSend_Skip(c) ==
    /\ ~crashed
    /\ pc[c] = "push"
    /\ ~PushDone(c)
    /\ pc' = [pc EXCEPT ![c] = "pushClose"]
    /\ UNCHANGED <<config, mux, mgrFields, locals, heap, taskVars, crashed>>

\* pushErrorToInbounds: in <- err
PushSend(c) ==
    /\ ~crashed
    /\ pc[c] = "push"
    /\ ~PushDone(c)
    /\ LET k == rng[c][idx[c]]
           ch == inCh[k[1]][k[2]]
       IN /\ CanSend(ch)
          /\ IF ch.closed
             THEN crashed' = TRUE /\ UNCHANGED <<inCh, pushed, pc>>
             ELSE /\ inCh' = [inCh EXCEPT ![k[1]][k[2]] = SendChan(ch, PushValue(c))]
                  /\ pushed' = [pushed EXCEPT ![k[1]][k[2]] = pushed[k[1]][k[2]] + 1]
                  /\ pc' = [pc EXCEPT ![c] = "pushClose"]
                  /\ UNCHANGED crashed
    /\ UNCHANGED <<config, mux, mgrFields, locals, queue, outCh, start, end,
                   taskVars>>

\* fault variant: the inbound channel is left open after the send
PushClose_NoClose(c) ==
    /\ ~crashed
    /\ pc[c] = "pushClose"
    /\ idx' = [idx EXCEPT ![c] = idx[c] + 1]
    /\ pc' = [pc EXCEPT ![c] = "push"]
    /\ UNCHANGED <<config, mux, mgrFields, rng, err, ret, errs, bizCalls,
                   heap, taskVars, crashed>>

\* pushErrorToInbounds: close(in)
PushClose(c) ==
    /\ ~crashed
    /\ pc[c] = "pushClose"
    /\ LET k == rng[c][idx[c]]
           ch == inCh[k[1]][k[2]]
       IN IF ch.closed
          THEN crashed' = TRUE /\ UNCHANGED <<inCh, pc, idx>>
          ELSE /\ inCh' = [inCh EXCEPT ![k[1]][k[2]] = CloseChan(ch)]
               /\ idx' = [idx EXCEPT ![c] = idx[c] + 1]
               /\ pc' = [pc EXCEPT ![c] = "push"]
               /\ UNCHANGED crashed
    /\ UNCHANGED <<config, mux, mgrFields, rng, err, ret, errs, bizCalls,
                   queue, outCh, pushed, start, end, taskVars>>

\* fault variant: run goes on as soon as one participant has finished
DoneWaitOver_Any(c) == end[c] < nfns \/ nfns = 0

\* fault variant: run does not wait for the participants at all
DoneWaitOver_NoWait(c) == TRUE

\* done.Wait() returns
DoneWaitOver(c) == end[c] = 0

DoneWait(c) ==
    /\ ~crashed
    /\ pc[c] = "push"
    /\ PushDone(c)
    /\ DoneWaitOver(c)
    /\ pc' = [pc EXCEPT ![c] = "closeOut"]
    /\ UNCHANGED <<config, mux, mgrFields, locals, heap, taskVars, crashed>>

\* close(m.out); newErrorsFromOutbound then ranges over m.out
CloseOut(c) ==
    /\ ~crashed
    /\ pc[c] = "closeOut"
    /\ IF out = NilRef \/ outCh[out].closed
       THEN crashed' = TRUE /\ UNCHANGED <<outCh, rng, pc>>
       ELSE /\ outCh' = [outCh EXCEPT ![out] = CloseChan(outCh[out])]
            /\ rng' = [rng EXCEPT ![c] = <<<<out, 0>>>>]
            /\ pc' = [pc EXCEPT ![c] = "drain"]
            /\ UNCHANGED crashed
    /\ UNCHANGED <<config, mux, mgrFields, idx, err, ret, errs, bizCalls,
                   queue, inCh, pushed, start, end, taskVars>>

\* fault variant: the received error is not pushed to the list
DrainRecv_Drop(c) ==
    /\ ~crashed
    /\ pc[c] = "drain"
    /\ LET k == rng[c][1][1]
       IN /\ Len(outCh[k].buf) > 0
          /\ outCh' = [outCh EXCEPT ![k] = RecvChan(outCh[k])]
    /\ UNCHANGED <<config, mux, mgrFields, pc, locals,
                   queue, inCh, pushed, start, end, taskVars, crashed>>

\* newErrorsFromOutbound: one iteration of `for txnErr := range m.out`
DrainRecv(c) ==
    /\ ~crashed
    /\ pc[c] = "drain"
    /\ LET k == rng[c][1][1]
       IN /\ Len(outCh[k].buf) > 0
          /\ errs' = [errs EXCEPT ![c] = Append(errs[c], Head(outCh[k].buf))]
          /\ outCh' = [outCh EXCEPT ![k] = RecvChan(outCh[k])]
    /\ UNCHANGED <<config, mux, mgrFields, pc, idx, rng, err, ret, bizCalls,
                   queue, inCh, pushed, start, end, taskVars, crashed>>

\* fault variant: collected participant errors win over the business error
RunResult_ListFirst(e, list) == IF Len(list) > 0 THEN ErrOf(list) ELSE e

\* the value run returns, lines 73-80
RunResult(e, list) == IF e # NilErr THEN e ELSE ErrOf(list)

\* fault variant: a business error makes run return without draining m.out
Return_SkipDrainOnError(c) ==
    /\ ~crashed
    /\ pc[c] = "drain"
    /\ LET k == rng[c][1][1]
       IN err[c] # NilErr \/ (Len(outCh[k].buf) = 0 /\ outCh[k].closed)
    /\ ret' = [ret EXCEPT ![c] = RunResult(err[c], errs[c])]
    /\ pc' = [pc EXCEPT ![c] = "teardown"]
    /\ UNCHANGED <<config, mux, mgrFields, idx, rng, err, errs, bizCalls,
                   heap, taskVars, crashed>>

\* the range loop ends on the closed, empty channel; run executes its return
Return(c) ==
    /\ ~crashed
    /\ pc[c] = "drain"
    /\ LET k == rng[c][1][1]
       IN Len(outCh[k].buf) = 0 /\ outCh[k].closed
    /\ ret' = [ret EXCEPT ![c] = RunResult(err[c], errs[c])]
    /\ pc' = [pc EXCEPT ![c] = "teardown"]
    /\ UNCHANGED <<config, mux, mgrFields, idx, rng, err, errs, bizCalls,
                   heap, taskVars, crashed>>

\* queue.Close blocks until the submitted tasks have completed
QueueCloseReady(k) == Unfinished(k) = {}

\* fault variant: teardown closes the queue but keeps the references
Teardown_KeepRefs(c) ==
    /\ ~crashed
    /\ pc[c] = "teardown"
    /\ IF q = NilRef
       THEN crashed' = TRUE /\ UNCHANGED <<queue, pc>>
       ELSE /\ QueueCloseReady(q)
            /\ queue' = [queue EXCEPT ![q].closed = TRUE]
            /\ pc' = [pc EXCEPT ![c] = "unlock"]
            /\ UNCHANGED crashed
    /\ UNCHANGED <<config, mux, mgrFields, locals, outCh, inCh, pushed, start, end,
                   taskVars>>

\* deferred teardown: m.q.Close(), then the references are set to nil
Teardown(c) ==
    /\ ~crashed
    /\ pc[c] = "teardown"
    /\ IF q = NilRef
       THEN crashed' = TRUE /\ UNCHANGED <<queue, q, out, ins, pc>>
       ELSE /\ QueueCloseReady(q)
            /\ queue' = [queue EXCEPT ![q].closed = TRUE]
            /\ q' = NilRef
            /\ ins' = <<>>
            /\ out' = NilRef
            /\ pc' = [pc EXCEPT ![c] = "unlock"]
            /\ UNCHANGED crashed
    /\ UNCHANGED <<config, mux, locals, outCh, inCh, pushed, start, end, taskVars>>

\* deferred m.mux.Unlock(); Run hands ret to its caller and its frame is gone
Unlock(c) ==
    /\ ~crashed
    /\ pc[c] = "unlock"
    /\ mux' = 0
    /\ err' = [err EXCEPT ![c] = NilErr]
    /\ ret' = [ret EXCEPT ![c] = NilErr]
    /\ errs' = [errs EXCEPT ![c] = <<>>]
    /\ rng' = [rng EXCEPT ![c] = <<>>]
    /\ idx' = [idx EXCEPT ![c] = 0]
    /\ reported' = [reported EXCEPT ![c] = {}]
    /\ pc' = [pc EXCEPT ![c] = "returned"]
    /\ UNCHANGED <<config, mgrFields, bizCalls, heap, tpc, tout, tq, got, crashed>>

\* ---------------------------------------------------------------- tasks
\* the queue runs a submitted task when one of its workers is free
Schedule(c, i) ==
    /\ ~crashed
    /\ tpc[c][i] = "pending"
    /\ queue[tq[c][i]].made
    /\ Cardinality(Occupied(tq[c][i])) < queue[tq[c][i]].cap
    /\ tpc' = [tpc EXCEPT ![c][i] = "running"]
    /\ UNCHANGED <<config, mux, mgrFields, pc, locals, heap, tout, tq, got,
                   reported, crashed>>

\* the participant finishes its setup and calls started.Done()
SignalStarted(c, i) ==
    /\ ~crashed
    /\ tpc[c][i] = "running"
    /\ start' = [start EXCEPT ![c] = start[c] - 1]
    /\ tpc' = [tpc EXCEPT ![c][i] = "waiting"]
    /\ UNCHANGED <<config, mux, mgrFields, pc, locals, queue, outCh, inCh, pushed,
                   end, tout, tq, got, reported, crashed>>

\* what a receive from a closed, empty inbound channel yields
NoOutcome == <<"none", 0, 0>>

\* the participant receives from its inbound channel
Receive(c, i) ==
    /\ ~crashed
    /\ tpc[c][i] = "waiting"
    /\ CanRecv(inCh[c][i])
    /\ IF Len(inCh[c][i].buf) > 0
       THEN /\ got' = [got EXCEPT ![c][i] = Head(inCh[c][i].buf)]
            /\ inCh' = [inCh EXCEPT ![c][i] = RecvChan(inCh[c][i])]
       ELSE /\ got' = [got EXCEPT ![c][i] = NoOutcome]
            /\ UNCHANGED inCh
    /\ tpc' = [tpc EXCEPT ![c][i] = "commit"]
    /\ UNCHANGED <<config, mux, mgrFields, pc, locals, queue, outCh, pushed,
                   start, end, tout, tq, reported, crashed>>

\* the participant commits or rolls back, sends at most one error on the
\* outbound channel, and returns
Report(c, i) ==
    /\ ~crashed
    /\ tpc[c][i] = "commit"
    /\ \E e \in {NilErr, TxnErr(c, i)} :
         IF e = NilErr
         THEN /\ tpc' = [tpc EXCEPT ![c][i] = "returned"]
              /\ UNCHANGED <<outCh, reported, crashed>>
         ELSE /\ CanSend(outCh[tout[c][i]])
              /\ IF outCh[tout[c][i]].closed
                 THEN crashed' = TRUE /\ UNCHANGED <<outCh, reported, tpc>>
                 ELSE /\ outCh' = [outCh EXCEPT ![tout[c][i]] =
                                       SendChan(outCh[tout[c][i]], e)]
                      /\ reported' = [reported EXCEPT ![c] = reported[c] \cup {i}]
                      /\ tpc' = [tpc EXCEPT ![c][i] = "returned"]
                      /\ UNCHANGED crashed
    /\ UNCHANGED <<config, mux, mgrFields, pc, locals, queue, inCh, pushed,
                   start, end, tout, tq, got>>

\* the task's closure calls end.Done() after fn returned
Finish(c, i) ==
    /\ ~crashed
    /\ tpc[c][i] = "returned"
    /\ end' = [end EXCEPT ![c] = end[c] - 1]
    /\ got' = [got EXCEPT ![c][i] = NilErr]
    /\ tpc' = [tpc EXCEPT ![c][i] = "finished"]
    /\ UNCHANGED <<config, mux, mgrFields, pc, locals, queue, outCh, inCh, pushed,
                   start, tout, tq, reported, crashed>>

\* ---------------------------------------------------------------- Next
ManagerStep(c) ==
    \/ Lock(c)
    \/ InitRun(c)
    \/ OpenTxns(c)
    \/ OpenTxn(c)
    \/ StartWait(c)
    \/ RunCall(c)
    \/ RunReturn(c)
    \/ PushSend(c)
    \/ PushClose(c)
    \/ DoneWait(c)
    \/ CloseOut(c)
    \/ DrainRecv(c)
    \/ Return(c)
    \/ Teardown(c)
    \/ Unlock(c)

TaskStep(c, i) ==
    \/ Schedule(c, i)
    \/ SignalStarted(c, i)
    \/ Receive(c, i)
    \/ Report(c, i)
    \/ Finish(c, i)

\* every step is guarded by ~crashed: a panic ends the process
Next ==
    \/ \E c \in Callers : ManagerStep(c)
    \/ \E c \in Callers : \E i \in Fns : TaskStep(c, i)

Spec == Init /\ [][Next]_vars

\* ---------------------------------------------------------------- variations
\* a participant that breaks the contract: it hangs in its setup and never
\* calls started.Done()
Stall(c, i) ==
    /\ ~crashed
    /\ tpc[c][i] = "running"
    /\ tpc' = [tpc EXCEPT ![c][i] = "stalled"]
    /\ UNCHANGED <<config, mux, mgrFields, pc, locals, heap, tout, tq, got,
                   reported, crashed>>

StallNext ==
    \/ Next
    \/ \E c \in Callers : \E i \in Fns : Stall(c, i)

\* the program with participants that may never signal started
StallSpec == Init /\ [][StallNext]_vars

\* a participant that breaks the contract: it sends a first error and goes on
\* to send a second one
ReportMore(c, i) ==
    /\ ~crashed
    /\ tpc[c][i] = "commit"
    /\ CanSend(outCh[tout[c][i]])
    /\ IF outCh[tout[c][i]].closed
       THEN crashed' = TRUE /\ UNCHANGED <<outCh, reported, tpc>>
       ELSE /\ outCh' = [outCh EXCEPT ![tout[c][i]] =
                             SendChan(outCh[tout[c][i]], TxnErr(c, i))]
            /\ reported' = [reported EXCEPT ![c] = reported[c] \cup {i}]
            /\ tpc' = [tpc EXCEPT ![c][i] = "again"]
            /\ UNCHANGED crashed
    /\ UNCHANGED <<config, mux, mgrFields, pc, locals, queue, inCh, pushed,
                   start, end, tout, tq, got>>

\* the second send of such a participant; then it returns
ReportAgain(c, i) ==
    /\ ~crashed
    /\ tpc[c][i] = "again"
    /\ CanSend(outCh[tout[c][i]])
    /\ IF outCh[tout[c][i]].closed
       THEN crashed' = TRUE /\ UNCHANGED <<outCh, tpc>>
       ELSE /\ outCh' = [outCh EXCEPT ![tout[c][i]] =
                             SendChan(outCh[tout[c][i]], TxnErr(c, i))]
            /\ tpc' = [tpc EXCEPT ![c][i] = "returned"]
            /\ UNCHANGED crashed
    /\ UNCHANGED <<config, mux, mgrFields, pc, locals, queue, inCh, pushed,
                   start, end, tout, tq, got, reported>>

ChattyNext ==
    \/ Next
    \/ \E c \in Callers : \E i \in Fns : ReportMore(c, i)
    \/ \E c \in Callers : \E i \in Fns : ReportAgain(c, i)

\* the program with participants that may send two errors
ChattySpec == Init /\ [][ChattyNext]_vars

\* the business function calls Run on the same Manager: the call waits in
\* m.mux.Lock() for LockFree
RunReenter(c) ==
    /\ ~crashed
    /\ pc[c] = "inRun"
    /\ pc' = [pc EXCEPT ![c] = "nested"]
    /\ UNCHANGED <<config, mux, mgrFields, locals, heap, taskVars, crashed>>

\* a participant that has received the outcome calls Run on the same Manager:
\* the call waits in m.mux.Lock() for LockFree
TaskReenter(c, i) ==
    /\ ~crashed
    /\ tpc[c][i] = "commit"
    /\ tpc' = [tpc EXCEPT ![c][i] = "nested"]
    /\ UNCHANGED <<config, mux, mgrFields, pc, locals, heap, tout, tq, got,
                   reported, crashed>>

ReentNext ==
    \/ Next
    \/ \E c \in Callers : RunReenter(c)
    \/ \E c \in Callers : \E i \in Fns : TaskReenter(c, i)

\* the program with business functions and participants that may call Run
ReentSpec == Init /\ [][ReentNext]_vars

\* fault variant: the inbound channels are closed when the panic unwinds run
RunPanic_CloseIns(c) ==
    /\ ~crashed
    /\ pc[c] = "inRun"
    /\ inCh' = [inCh EXCEPT ![c] = [i \in Fns |-> CloseChan(inCh[c][i])]]
    /\ pc' = [pc EXCEPT ![c] = "panicTeardown"]
    /\ UNCHANGED <<config, mux, mgrFields, locals, queue, outCh, pushed, start, end,
                   taskVars, crashed>>

\* err = run() panics: lines 61-80 are skipped and the deferred teardown is next
RunPanic(c) ==
    /\ ~crashed
    /\ pc[c] = "inRun"
    /\ pc' = [pc EXCEPT ![c] = "panicTeardown"]
    /\ UNCHANGED <<config, mux, mgrFields, locals, heap, taskVars, crashed>>

\* the deferred teardown while panicking: m.q.Close(), references set to nil
PanicTeardown(c) ==
    /\ ~crashed
    /\ pc[c] = "panicTeardown"
    /\ IF q = NilRef
       THEN crashed' = TRUE /\ UNCHANGED <<queue, q, out, ins, pc>>
       ELSE /\ QueueCloseReady(q)
            /\ queue' = [queue EXCEPT ![q].closed = TRUE]
            /\ q' = NilRef
            /\ ins' = <<>>
            /\ out' = NilRef
            /\ pc' = [pc EXCEPT ![c] = "panicUnlock"]
            /\ UNCHANGED crashed
    /\ UNCHANGED <<config, mux, locals, outCh, inCh, pushed, start, end, taskVars>>

\* the deferred m.mux.Unlock() while panicking; the panic then reaches the
\* caller of Run, which recovers from it or lets the process end
PanicUnlock(c) ==
    /\ ~crashed
    /\ pc[c] = "panicUnlock"
    /\ mux' = 0
    /\ \E recovered \in BOOLEAN : crashed' = ~recovered
    /\ pc' = [pc EXCEPT ![c] = "panicked"]
    /\ UNCHANGED <<config, mgrFields, locals, heap, taskVars>>

PanicNext ==
    \/ Next
    \/ \E c \in Callers : RunPanic(c)
    \/ \E c \in Callers : PanicTeardown(c)
    \/ \E c \in Callers : PanicUnlock(c)

\* the program with business functions that may panic
PanicSpec == Init /\ [][PanicNext]_vars

\* a bound on the missing workers
MaxShort == 1

\* the same program over a queue that may have fewer workers than participants
CapInit == InitState /\ short \in 0..MaxShort

CapSpec == CapInit /\ [][Next]_vars

\* the Go scheduler runs every runnable goroutine
FairSpec ==
    /\ Spec
    /\ \A c \in Callers : WF_vars(ManagerStep(c))
    /\ \A c \in Callers : \A i \in Fns : WF_vars(TaskStep(c, i))

\* ---------------------------------------------------------------- properties
\* participants of an episode
Parts == 1..nfns
\* participant i of episode c has called started.Done()
Started(c, i) == tpc[c][i] \in {"waiting", "commit", "returned", "finished"}
AllStarted(c) == \A i \in Parts : Started(c, i)
\* the task of participant i has called end.Done()
AllFinished(c) == \A i \in Parts : tpc[c][i] = "finished"
\* caller c is inside Run
InEpisode(c) == pc[c] \notin {"idle", "returned"}
\* positions of run before the business function has returned
BeforeRunReturn == {"idle", "initRun", "openTxns", "openTxn", "callRun", "inRun"}
\* positions of run after done.Wait()
AfterDoneWait == {"closeOut", "drain", "teardown", "unlock", "returned"}
\* positions where run has executed its return statement and Run has not yet returned
Returning == {"teardown", "unlock"}
\* the elements of a sequence
Elems(list) == {list[n] : n \in 1..Len(list)}
\* the errors a returned value carries
ErrorsIn(r) == IF r = NilErr THEN {}
               ELSE IF r[1] = "list" THEN Elems(r[2])
               ELSE {r}
\* the errors the participants of episode c have sent
Reported(c) == {TxnErr(c, i) : i \in reported[c]}

\* C1: the business function is entered only after every participant of the
\* episode has signaled started (barrier A)
C1_RunAfterAllStarted ==
    \A c \in Callers : (pc[c] = "callRun" \/ bizCalls[c] > 0) => AllStarted(c)

C1_Witness ==
    \E c \in Callers : nfns >= 2 /\ pc[c] = "inRun" /\ bizCalls[c] = 1
                       /\ \A i \in Parts : tpc[c][i] = "waiting"

\* C2: on every inbound channel at most one value is ever sent, exactly one
\* once the broadcast is over; the value is what the business function
\* returned; it is sent only after all participants signaled started and the
\* business function has returned
C2_OneOutcomePerInbound ==
    \A c \in Callers : \A i \in Parts :
        /\ pushed[c][i] <= 1
        /\ pushed[c][i] = 1 => /\ AllStarted(c)
                               /\ bizCalls[c] = 1
                               /\ pc[c] \notin BeforeRunReturn
        /\ \A n \in 1..Len(inCh[c][i].buf) :
               inCh[c][i].buf[n] = err[c] /\ err[c] \in RunOutcomes(c)
        /\ tpc[c][i] \in {"commit", "returned"} =>
               got[c][i] = err[c] /\ err[c] \in RunOutcomes(c)
        /\ pc[c] \in AfterDoneWait => pushed[c][i] = 1

C2_Witness ==
    \E c \in Callers : /\ nfns >= 2
                       /\ pc[c] = "push" /\ PushDone(c)
                       /\ err[c] = BizErr(c)
                       /\ \A i \in Parts : pushed[c][i] = 1
                       /\ \E i \in Parts : tpc[c][i] = "commit" /\ got[c][i] = BizErr(c)

\* C3: run passes done.Wait(), and so Run returns, only after every
\* participant task of the episode has finished
C3_ReturnAfterAllFinished ==
    \A c \in Callers : pc[c] \in AfterDoneWait => AllFinished(c)

C3_Witness ==
    \E c \in Callers : nfns >= 2 /\ pc[c] = "returned" /\ AllFinished(c)

\* C4: when the business function returned an error E, Run returns exactly E,
\* however many participants reported errors; these are drained, not returned
C4_BusinessErrorWins ==
    \A c \in Callers :
        (pc[c] \in Returning /\ err[c] # NilErr) =>
            /\ ret[c] = err[c]
            /\ err[c] = BizErr(c)
            /\ outCh[c].buf = <<>>
            /\ Elems(errs[c]) = Reported(c)

C4_Witness ==
    \E c \in Callers : /\ pc[c] = "unlock"
                       /\ err[c] = BizErr(c)
                       /\ ret[c] = BizErr(c)
                       /\ Cardinality(reported[c]) >= 2

\* C5: when the business function returned nil, Run returns the combination
\* of exactly the errors the participants reported, nil when there are none;
\* Run returns nil iff the business function succeeded and nobody reported,
\* and never mixes the business error with participant errors
C5_ParticipantErrorsCombined ==
    \A c \in Callers :
        pc[c] \in Returning =>
            /\ err[c] = NilErr =>
                   /\ ErrorsIn(ret[c]) = Reported(c)
                   /\ Elems(errs[c]) = Reported(c)
                   /\ Len(errs[c]) = Cardinality(reported[c])
                   /\ ret[c] = ErrOf(errs[c])
            /\ ret[c] = NilErr <=> (err[c] = NilErr /\ reported[c] = {})
            /\ ErrorsIn(ret[c]) \subseteq Reported(c) \/ ErrorsIn(ret[c]) = {BizErr(c)}

C5_Witness ==
    \E c \in Callers : /\ pc[c] = "unlock"
                       /\ err[c] = NilErr
                       /\ Cardinality(reported[c]) >= 2
                       /\ ErrorsIn(ret[c]) = Reported(c)

\* C6: at most one caller is inside Run, it holds the mutex, and while it
\* runs the Manager's fields refer to the objects of its own episode
C6_RunsSerialize ==
    /\ Cardinality({c \in Callers : InEpisode(c)}) <= 1
    /\ \A c \in Callers : InEpisode(c) => mux = c
    /\ \A c \in Callers :
           (InEpisode(c) /\ pc[c] \notin {"initRun", "unlock"}) =>
               /\ q = c
               /\ out = c
               /\ \A n \in 1..Len(ins) : ins[n] = <<c, n>>
    /\ \A c \in Callers : \A i \in Parts :
           tpc[c][i] # "none" => tq[c][i] = c /\ tout[c][i] = c

C6_Witness ==
    \E c, d \in Callers : /\ c # d
                          /\ pc[c] = "returned"
                          /\ pc[d] = "inRun"
                          /\ nfns >= 1
                          /\ Len(ins) = nfns

\* C7: with zero participants run never blocks, sends no outcome, invokes the
\* business function exactly once and returns exactly its result
C7_ZeroParticipantsPassThrough ==
    nfns = 0 =>
        \A c \in Callers :
            /\ InEpisode(c) => ENABLED ManagerStep(c)
            /\ bizCalls[c] <= 1
            /\ pc[c] \in (Returning \cup {"returned"}) => bizCalls[c] = 1
            /\ pc[c] \in Returning => ret[c] = err[c]
            /\ ins = <<>>
            /\ outCh[c].buf = <<>>
            /\ \A i \in Fns : pushed[c][i] = 0 /\ tpc[c][i] = "none"

C7_Witness ==
    \E c \in Callers : /\ nfns = 0
                       /\ pc[c] = "unlock"
                       /\ bizCalls[c] = 1
                       /\ ret[c] = BizErr(c)

\* C8: after Run has returned, the inbound channels and the outbound channel
\* of the episode are closed (and empty), its queue is closed and none of its
\* tasks is running
C8_TornDownAfterReturn ==
    \A c \in Callers :
        pc[c] = "returned" =>
            /\ \A i \in Parts : inCh[c][i].closed /\ inCh[c][i].buf = <<>>
            /\ outCh[c].closed /\ outCh[c].buf = <<>>
            /\ queue[c].closed
            /\ Unfinished(c) = {}
            /\ AllFinished(c)

C8_Witness ==
    \E c \in Callers : /\ nfns >= 2
                       /\ pc[c] = "returned"
                       /\ queue[c].closed
                       /\ outCh[c].closed
                       /\ \A i \in Parts : inCh[c][i].closed

\* C9: the outbound channel is closed only when every participant has
\* finished, no send meets a closed channel (no panic), and the drain runs
\* on the closed channel only
C9_CloseOutAfterAllFinished ==
    /\ ~crashed
    /\ \A c \in Callers :
           /\ outCh[c].closed => AllFinished(c)
           /\ pc[c] = "drain" => rng[c] = <<<<c, 0>>>> /\ outCh[c].closed
           /\ \A i \in Parts : tpc[c][i] = "commit" => ~outCh[tout[c][i]].closed

C9_Witness ==
    \E c \in Callers : /\ pc[c] = "drain"
                       /\ outCh[c].closed
                       /\ Len(outCh[c].buf) >= 2
                       /\ AllFinished(c)

\* C10: under fair scheduling every Run that has started returns, and every
\* participant waiting on its inbound channel receives the outcome
C10_EveryRunReturns ==
    /\ \A c \in Callers : (pc[c] = "initRun") ~> (pc[c] = "returned")
    /\ \A c \in Callers : \A i \in Fns :
           (tpc[c][i] = "waiting") ~> (tpc[c][i] = "commit" /\ got[c][i] = err[c])

C10_Witness ==
    /\ nfns >= 2
    /\ \A c \in Callers : pc[c] = "returned" /\ AllFinished(c)

\* C11: initRun gives the queue as many workers as there are participants;
\* over a queue with fewer workers the participants that got a worker wait on
\* their inbound channels, the others are never scheduled, barrier A is never
\* passed and the business function is never invoked
C11_FewerWorkersDeadlock ==
    \A c \in Callers :
        queue[c].made =>
            /\ short = 0 => queue[c].cap = nfns
            /\ Cardinality(Occupied(c)) <= queue[c].cap
            /\ queue[c].cap < nfns =>
                   /\ bizCalls[c] = 0
                   /\ pc[c] \in {"openTxns", "openTxn"}
                   /\ mux = c
                   /\ pc[c] = "openTxn" => start[c] >= nfns - queue[c].cap
                   /\ \A i \in Parts : tpc[c][i] \in {"none", "pending", "running", "waiting"}
                   /\ \A i \in Parts : pushed[c][i] = 0

C11_Witness ==
    \E c \in Callers :
        /\ queue[c].made /\ queue[c].cap >= 1 /\ queue[c].cap < nfns
        /\ pc[c] = "openTxn" /\ idx[c] > nfns
        /\ Cardinality({i \in Parts : tpc[c][i] = "waiting"}) = queue[c].cap
        /\ \E i \in Parts : tpc[c][i] = "pending"
        /\ ~ENABLED Next

\* C12: the broadcast visits the inbound channels in participant order, sends
\* and then closes each; every send finds room in the one-value buffer, so it
\* never blocks the Manager, whether or not the participant has received
C12_BroadcastNeverBlocks ==
    \A c \in Callers :
        pc[c] \in {"push", "pushClose"} =>
            /\ Len(rng[c]) = nfns
            /\ \A n \in 1..Len(rng[c]) : rng[c][n] = <<c, n>>
            /\ idx[c] \in 1..(nfns + 1)
            /\ \A n \in Parts :
                   /\ n < idx[c] => inCh[c][n].closed /\ pushed[c][n] = 1
                   /\ n > idx[c] => /\ ~inCh[c][n].closed
                                    /\ pushed[c][n] = 0
                                    /\ inCh[c][n].buf = <<>>
            /\ (pc[c] = "push" /\ ~PushDone(c)) =>
                   /\ ~inCh[c][idx[c]].closed
                   /\ Len(inCh[c][idx[c]].buf) < inCh[c][idx[c]].cap
                   /\ ENABLED PushSend(c)
            /\ pc[c] = "pushClose" =>
                   /\ ~inCh[c][idx[c]].closed
                   /\ pushed[c][idx[c]] = 1
                   /\ ENABLED PushClose(c)

C12_Witness ==
    \E c \in Callers :
        /\ nfns >= 2
        /\ pc[c] = "push" /\ PushDone(c)
        /\ \A i \in Parts : /\ tpc[c][i] = "waiting"
                            /\ inCh[c][i].closed
                            /\ inCh[c][i].buf = <<err[c]>>

\* C13: with at most one error per participant the outbound buffer of N
\* values never overflows: a participant about to report always finds room,
\* although the Manager receives nothing before barrier B
C13_OutboundNeverFull ==
    \A c \in Callers :
        outCh[c].made =>
            /\ outCh[c].cap = nfns
            /\ Len(outCh[c].buf) <= nfns
            /\ \A i \in Parts :
                   tpc[c][i] = "commit" =>
                       /\ ~outCh[tout[c][i]].closed
                       /\ Len(outCh[tout[c][i]].buf) < outCh[tout[c][i]].cap
            /\ pc[c] \notin AfterDoneWait =>
                   /\ errs[c] = <<>>
                   /\ Len(outCh[c].buf) = Cardinality(reported[c])

C13_Witness ==
    \E c \in Callers :
        /\ nfns >= 2
        /\ pc[c] = "push"
        /\ errs[c] = <<>>
        /\ Len(outCh[c].buf) = nfns
        /\ \E i \in Parts : tpc[c][i] = "returned"

\* the drain runs on the closed channel, which holds at most N values; once
\* run has left the loop the channel is empty and every reported error is in
\* the list, whatever the business function returned
OutboundDrained ==
    \A c \in Callers :
        /\ pc[c] = "drain" =>
               /\ outCh[c].closed
               /\ Len(outCh[c].buf) + Len(errs[c]) = Cardinality(reported[c])
               /\ Len(outCh[c].buf) + Len(errs[c]) <= nfns
        /\ pc[c] \in (Returning \cup {"returned"}) =>
               outCh[c].closed /\ outCh[c].buf = <<>>
        /\ pc[c] \in Returning => Len(errs[c]) = Cardinality(reported[c])

\* C14: the outbound channel is drained completely in every episode, also
\* after a business error: it is closed and empty when Run returns, and the
\* drain loop always ends
C14_OutboundDrainedAlways ==
    /\ []OutboundDrained
    /\ \A c \in Callers : (pc[c] = "drain") ~> (pc[c] = "teardown")

C14_Witness ==
    \E c \in Callers :
        /\ nfns >= 2
        /\ pc[c] = "teardown"
        /\ err[c] = BizErr(c)
        /\ Len(errs[c]) = nfns
        /\ outCh[c].buf = <<>>

\* C15: when a participant never signals started, run stays in start.Wait():
\* the business function is not invoked, no outcome is sent, no inbound
\* channel is closed, the mutex stays locked and Run does not return
C15_StalledParticipantHangsRun ==
    \A c \in Callers :
        (\E i \in Parts : tpc[c][i] = "stalled") =>
            /\ pc[c] = "openTxn"
            /\ start[c] > 0
            /\ ~ENABLED StartWait(c)
            /\ bizCalls[c] = 0
            /\ mux = c
            /\ \A i \in Parts : pushed[c][i] = 0 /\ ~inCh[c][i].closed
            /\ \A i \in Parts : tpc[c][i] \in {"none", "pending", "running", "stalled", "waiting"}
            /\ \A d \in Callers : d # c => pc[d] \in {"idle", "returned"}

C15_Witness ==
    \E c \in Callers :
        /\ nfns >= 2
        /\ pc[c] = "openTxn" /\ idx[c] > nfns
        /\ \E i \in Parts : tpc[c][i] = "stalled"
        /\ \E i \in Parts : tpc[c][i] = "waiting"
        /\ \E d \in Callers : pc[d] = "idle"
        /\ ~ENABLED StallNext

\* C16: an inbound channel is closed only after the outcome was sent on it,
\* so a participant's receive always yields the outcome, never a close
\* without a value
C16_ClosedInboundHasOutcome ==
    \A c \in Callers : \A i \in Parts :
        /\ inCh[c][i].closed => pushed[c][i] = 1
        /\ (tpc[c][i] = "waiting" /\ CanRecv(inCh[c][i])) => Len(inCh[c][i].buf) = 1
        /\ tpc[c][i] \in {"commit", "returned"} =>
               got[c][i] # NoOutcome /\ got[c][i] \in RunOutcomes(c)

C16_Witness ==
    \E c \in Callers : \E i \in Parts :
        /\ inCh[c][i].closed
        /\ inCh[c][i].buf = <<>>
        /\ pushed[c][i] = 1
        /\ tpc[c][i] = "commit"
        /\ err[c] = NilErr
        /\ got[c][i] = NilErr

\* the errors that belong to the episode of caller c
OwnErrors(c) == {BizErr(c)} \cup {TxnErr(c, i) : i \in Parts}

\* C17: while no Run is in progress the Manager's queue, outbound and inbound
\* references are nil; every Run starts on a fresh queue, fresh channels and
\* fresh wait groups, and only outcomes and errors of its own episode are
\* delivered to its participants, collected or returned
C17_EpisodesIndependent ==
    /\ (\A c \in Callers : ~InEpisode(c)) =>
           q = NilRef /\ out = NilRef /\ ins = <<>> /\ mux = 0
    /\ \A c \in Callers :
           /\ pc[c] = "openTxns" =>
                  /\ q = c /\ queue[c] = QueueNew(nfns)
                  /\ out = c /\ outCh[c] = MakeChan(nfns)
                  /\ ins = <<>>
                  /\ \A i \in Fns : inCh[c][i] = NoChan /\ tpc[c][i] = "none"
           /\ (pc[c] = "openTxn" /\ idx[c] = 1) => start[c] = nfns /\ end[c] = nfns
           /\ \A i \in Parts :
                  /\ Elems(inCh[c][i].buf) \subseteq RunOutcomes(c)
                  /\ got[c][i] \in RunOutcomes(c)
           /\ Elems(outCh[c].buf) \subseteq OwnErrors(c)
           /\ Elems(errs[c]) \subseteq OwnErrors(c)
           /\ ErrorsIn(ret[c]) \subseteq OwnErrors(c)

C17_Witness ==
    \E c, d \in Callers :
        /\ c # d
        /\ nfns >= 2
        /\ pc[c] = "returned"
        /\ pc[d] = "unlock"
        /\ q = NilRef /\ out = NilRef /\ ins = <<>>
        /\ ErrorsIn(ret[d]) = {TxnErr(d, i) : i \in Parts}

\* the sends made and still to be made on the outbound channel of episode c
\* exceed its buffer
TooManySends(c) ==
    /\ outCh[c].made
    /\ Len(outCh[c].buf) + Cardinality({i \in Parts : tpc[c][i] = "again"}) > outCh[c].cap

\* while too many sends are attempted run stays before done.Wait() and has
\* received nothing; some participant has a send left, and with a full buffer
\* no such send can proceed
StuckOnOutbound ==
    \A c \in Callers :
        TooManySends(c) =>
            /\ pc[c] \notin AfterDoneWait
            /\ errs[c] = <<>>
            /\ ~outCh[c].closed
            /\ \E i \in Parts : tpc[c][i] = "again"
            /\ Len(outCh[c].buf) = outCh[c].cap =>
                   \A i \in Parts : tpc[c][i] = "again" => ~ENABLED ReportAgain(c, i)

\* C18: the Manager receives nothing from the outbound channel before barrier
\* B, so once the participants attempt more than N sends this stays so for
\* ever: a send blocks on the full buffer, its participant never finishes and
\* Run never returns
C18_ExtraSendBlocksForever ==
    /\ []StuckOnOutbound
    /\ [][\A c \in Callers : TooManySends(c) => TooManySends(c)']_vars

C18_Witness ==
    \E c \in Callers :
        /\ nfns >= 2
        /\ TooManySends(c)
        /\ Len(outCh[c].buf) = nfns
        /\ pc[c] = "push" /\ PushDone(c)
        /\ \E i \in Parts : tpc[c][i] = "again"
        /\ \E i \in Parts : tpc[c][i] = "finished"
        /\ ~ENABLED ChattyNext

\* C19: the mutex is held from the start of Run until after teardown and is
\* not re-entrant: a Run called from the business function or from a
\* participant of the running episode finds the mutex taken for ever, and
\* the outer Run does not get past done.Wait()
C19_NestedRunBlocksForever ==
    \A c \in Callers :
        /\ InEpisode(c) => mux = c
        /\ (pc[c] = "nested" \/ \E i \in Parts : tpc[c][i] = "nested") =>
               /\ ~LockFree
               /\ mux = c
               /\ pc[c] \notin AfterDoneWait
               /\ ~outCh[c].closed
        /\ pc[c] = "nested" =>
               \A i \in Parts : tpc[c][i] = "waiting" /\ pushed[c][i] = 0

C19_Witness ==
    \E c \in Callers :
        /\ nfns >= 2
        /\ pc[c] = "nested"
        /\ mux = c
        /\ \A i \in Parts : tpc[c][i] = "waiting"
        /\ ~ENABLED ReentNext

\* positions of Run after the business function has panicked
Panicking == {"panicTeardown", "panicUnlock", "panicked"}

\* C20: the broadcast is reached only when the business function returns;
\* after a panic of the business function the deferred teardown is all that
\* runs: no outcome is sent, no inbound channel is closed and every
\* participant stays blocked in its receive
C20_PanicLeavesParticipantsBlocked ==
    \A c \in Callers :
        /\ (\E i \in Parts : pushed[c][i] > 0 \/ inCh[c][i].closed) =>
               pc[c] \notin (BeforeRunReturn \cup Panicking)
        /\ pc[c] \in Panicking =>
               /\ bizCalls[c] = 1
               /\ \A i \in Parts :
                      /\ tpc[c][i] = "waiting"
                      /\ pushed[c][i] = 0
                      /\ inCh[c][i].buf = <<>>
                      /\ ~inCh[c][i].closed
                      /\ ~ENABLED Receive(c, i)

C20_Witness ==
    \E c \in Callers :
        /\ nfns >= 2
        /\ pc[c] = "panicTeardown"
        /\ \A i \in Parts : tpc[c][i] = "waiting"
        /\ ~ENABLED PanicNext
====
